---- MODULE Spec2Model ----
(***************************************************************************)
(* Model of static/js/admin.js, the jQuery glue of the admin dashboard:    *)
(* the order-status select, the user-active and review-approval toggles,   *)
(* the toast notifications, the CSV export, the bulk action and the theme  *)
(* switcher.  DOM elements are modelled by the fields the handlers read    *)
(* and write; every $.ajax call is a request in flight whose callback is   *)
(* a later step.                                                           *)
(***************************************************************************)
EXTENDS Integers, Sequences, FiniteSets, TLC

\* ---------------------------------------------------------------- bounds
\* External events in one page session: user events (change, click) and clock ticks.
MaxEvents == 2
\* Clock ticks in one calendar day (UTC); the page loads at any tick of day 0.
TicksPerDay == 2

\* ------------------------------------------------------------ input sets
\* The five statuses the badge mapping enumerates.
OrderStatuses == {"pending", "processing", "confirmed", "delivered", "cancelled"}
\* The option values the user picks in the select.
SelectOptions == {"pending", "processing", "cancelled"}
\* What the server may answer as new_status: the five plus one it does not know.
ServerStatuses == OrderStatuses \cup {"refunded"}
\* response.message of a success=false answer.
ServerMessages == {"locked"}
\* The `error` argument jQuery hands to an error callback.
TransportErrors == {"timeout"}

\* Rows are <<kind, id>>; a page renders one of these sets of rows.
PageRows ==
  { {<<"order", 1>>, <<"order", 2>>},
    {<<"user", 1>>, <<"user", 2>>},
    {<<"review", 1>>, <<"review", 2>>},
    {<<"order", 1>>, <<"user", 1>>, <<"review", 1>>} }

VARIABLES
  rows,            \* the rows the current page renders
  selectVal,       \* order row -> value of its .update-status select
  statusText,      \* order row -> text of its .status-text label
  checked,         \* user/review row -> checked state of its checkbox
  badgeClass,      \* row -> colour classes of its badge element
  badgeText,       \* row -> text of its badge element
  serverFlag,      \* user/review row -> the server's active/approved flag
  acked,           \* row -> has a request of the row been answered success=true
  lastAck,         \* order row -> new_status of the last success=true answer
  requests,        \* $.ajax calls of the row handlers, in issue order
  toastContainer,  \* children of #toastContainer, in document order
  now,             \* Date.now()
  events,          \* external events so far
  exportReqs,      \* $.ajax calls of the export handler, in issue order
  downloads,       \* the files the export handler made the browser download
  bulkChecked,     \* position -> checked state of the .bulk-select checkbox there
  selectAll,       \* checked state of the .select-all checkbox
  confirmLog,      \* the confirm() prompts of the bulk handler, with the user's answers
  consoleLog,      \* the console.log lines of the bulk handler
  markupTheme,     \* data-bs-theme of <html> as the server renders it
  htmlTheme,       \* data-bs-theme of <html> now
  storedTheme,     \* localStorage item 'theme'
  pageLoaded,      \* has the document-ready callback run
  themeHist,       \* the last two theme events, each with the attribute before it
  statsSlots,      \* text of the four [data-stat] display slots
  statsReqs,       \* $.ajax calls of updateDashboardStats, in issue order
  lastStats,       \* stats of the last success=true answer processed, if any
  statsLog,        \* outcomes of the stats requests, in the order processed
  location,        \* window.location.href
  deletePrompts    \* the confirm() prompts of the delete links, with the user's answers

rowVars == <<rows, selectVal, statusText, checked, badgeClass, badgeText,
             serverFlag, acked, lastAck, requests>>
exportVars == <<exportReqs, downloads>>
bulkVars == <<bulkChecked, selectAll, confirmLog, consoleLog>>
themeVars == <<markupTheme, htmlTheme, storedTheme, pageLoaded, themeHist>>
statsVars == <<statsSlots, statsReqs, lastStats, statsLog>>
navVars == <<location, deletePrompts>>
otherVars == <<exportVars, bulkVars, themeVars, statsVars, navVars>>
vars == <<rows, selectVal, statusText, checked, badgeClass, badgeText,
          serverFlag, acked, lastAck, requests, toastContainer, now, events,
          exportReqs, downloads, bulkChecked, selectAll, confirmLog, consoleLog,
          markupTheme, htmlTheme, storedTheme, pageLoaded, themeHist,
          statsSlots, statsReqs, lastStats, statsLog, location, deletePrompts>>

\* ------------------------------------------------------------- helpers
Kind(row) == row[1]
Id(row) == row[2]
OrderRows == {r \in rows : Kind(r) = "order"}
ToggleRows == {r \in rows : Kind(r) \in {"user", "review"}}

\* jQuery setters act on every element of the selection.
SetAll(f, sel, v) == [r \in DOMAIN f |-> IF r \in sel THEN v ELSE f[r]]

RemoveAt(s, i) == [j \in 1..(Len(s) - 1) |-> IF j < i THEN s[j] ELSE s[j + 1]]

\* String.prototype.toUpperCase on the status values.
ToUpperCase(s) ==
  CASE s = "pending" -> "PENDING"
    [] s = "processing" -> "PROCESSING"
    [] s = "confirmed" -> "CONFIRMED"
    [] s = "delivered" -> "DELIVERED"
    [] s = "cancelled" -> "CANCELLED"
    [] s = "refunded" -> "REFUNDED"
    [] OTHER -> s

\* Text of the label after .html('<span class="spinner-border ..."></span> Updating...').
UpdatingText == "Updating..."

\* The URL of the page.
PageUrl == "/dashboard"

\* ---------------------------------------------------------------- toasts
\* Index of the first child of the container with this id: document.getElementById.
GetElementById(c, id) ==
  CHOOSE i \in 1..Len(c) : c[i].id = id /\ \A j \in 1..(i - 1) : c[j].id # id

\* The element showToast builds; the id is 'toast-' + Date.now(), one id per clock value.
ToastElement(t, title, message, type) ==
  [id |-> t, title |-> title, message |-> message, type |-> type, shown |-> FALSE]

\* $('#toastContainer').append(toastHtml), then document.getElementById(toastId) and
\* new bootstrap.Toast(toastElement).show(): the first element with the id is shown.
AppendAndShow(c, el) ==
  LET c1 == Append(c, el)
  IN [c1 EXCEPT ![GetElementById(c1, el.id)].shown = TRUE]

\* Mutant: the severity is dropped and the default 'info' styles every toast.
showToastAsInfo(c, t, title, message, type) ==
  AppendAndShow(c, ToastElement(t, title, message, "info"))

\* showToast(title, message, type) at clock t on container c.
showToast(c, t, title, message, type) ==
  AppendAndShow(c, ToastElement(t, title, message, type))

\* A shown toast hides (autohide or its close button): the hidden.bs.toast
\* listener removes the element it was attached to.
ToastHidden(i) ==
  /\ i \in 1..Len(toastContainer)
  /\ toastContainer[i].shown
  /\ toastContainer' = RemoveAt(toastContainer, i)
  /\ UNCHANGED <<rowVars, otherVars, now, events>>

\* The clock advances.
Tick ==
  /\ events < MaxEvents
  /\ now' = now + 1
  /\ events' = events + 1
  /\ UNCHANGED <<rowVars, otherVars, toastContainer>>

\* ------------------------------------------------------ DOM selections
\* $(this).parent().find('.status-text') in the change handler of a row's select.
StatusTextOf(row) == {r \in OrderRows : r = row}

\* Mutant: the badge is selected by class, not by id: every order badge of the page.
StatusBadgeByClass(orderId) == OrderRows

\* $(`#status-badge-${orderId}`)
StatusBadgeOf(orderId) == {r \in OrderRows : Id(r) = orderId}

\* $(`#user-status-${userId}`) and $(`#review-status-${reviewId}`)
ToggleBadgeOf(kind, id) == {r \in ToggleRows : Kind(r) = kind /\ Id(r) = id}

\* $(this) inside a success or error callback.  No `context` option is given to
\* $.ajax, so jQuery calls the callbacks with `this` bound to the settings object
\* of the call: the selection holds no element of the page.
CallbackThis(row) == {}

\* $(this).data('original-status') inside a callback: the settings object carries
\* no such datum.
DataOriginalStatus(row) == "undefined"

\* --------------------------------------------------- order status update
\* The five classes the success callback removes from the badge.
RemovedStatusClasses == {"bg-primary", "bg-warning", "bg-info", "bg-success", "bg-danger"}

\* The if / else-if chain choosing badgeClass from response.new_status.
BadgeClassFor(status) ==
  IF status = "pending" THEN "bg-primary"
  ELSE IF status = "processing" THEN "bg-warning"
  ELSE IF status = "confirmed" THEN "bg-info"
  ELSE IF status = "delivered" THEN "bg-success"
  ELSE IF status = "cancelled" THEN "bg-danger"
  ELSE "bg-secondary"

Request(row, status, isOn, prevVal, prevOn, originalStatus) ==
  [row |-> row, status |-> status, isOn |-> isOn, prevVal |-> prevVal,
   prevOn |-> prevOn, originalStatus |-> originalStatus, phase |-> "sent",
   message |-> ""]

\* The user picks another option of a row's select: the change handler shows the
\* pending label and issues the request.
UpdateStatusChange(row, newStatus) ==
  /\ row \in OrderRows
  /\ events < MaxEvents
  /\ newStatus \in SelectOptions
  /\ newStatus # selectVal[row]
  /\ LET originalText == StatusTextOf(row)
         originalStatus == statusText[row]
     IN /\ selectVal' = [selectVal EXCEPT ![row] = newStatus]
        /\ statusText' = SetAll(statusText, originalText, UpdatingText)
        /\ requests' = Append(requests,
              Request(row, newStatus, FALSE, selectVal[row], FALSE, originalStatus))
  /\ events' = events + 1
  /\ UNCHANGED <<otherVars, rows, checked, badgeClass, badgeText, serverFlag, acked, lastAck,
                 toastContainer, now>>

\* success callback, response.success true, response.new_status = newStatus.
UpdateStatusSuccess(i, newStatus) ==
  /\ i \in 1..Len(requests)
  /\ Kind(requests[i].row) = "order"
  /\ newStatus \in ServerStatuses
  /\ LET r == requests[i]
         originalText == StatusTextOf(r.row)
         badge == StatusBadgeOf(Id(r.row))
     IN /\ statusText' = SetAll(statusText, originalText, ToUpperCase(newStatus))
        /\ badgeClass' =
             [b \in DOMAIN badgeClass |->
                IF b \in badge
                  THEN (badgeClass[b] \ RemovedStatusClasses) \cup {BadgeClassFor(newStatus)}
                  ELSE badgeClass[b]]
        /\ badgeText' = SetAll(badgeText, badge, ToUpperCase(newStatus))
        /\ toastContainer' = showToast(toastContainer, now, "Success",
                                       <<"Order status updated successfully">>, "success")
        /\ acked' = [acked EXCEPT ![r.row] = TRUE]
        /\ lastAck' = [lastAck EXCEPT ![r.row] = newStatus]
  /\ requests' = RemoveAt(requests, i)
  /\ UNCHANGED <<otherVars, rows, selectVal, checked, serverFlag, now, events>>

\* success callback, response.success false, response.message = message.
UpdateStatusRejected(i, message) ==
  /\ i \in 1..Len(requests)
  /\ Kind(requests[i].row) = "order"
  /\ message \in ServerMessages
  /\ LET r == requests[i]
     IN /\ toastContainer' = showToast(toastContainer, now, "Error", <<message>>, "danger")
        /\ selectVal' = SetAll(selectVal, CallbackThis(r.row), DataOriginalStatus(r.row))
  /\ requests' = RemoveAt(requests, i)
  /\ UNCHANGED <<otherVars, rows, statusText, checked, badgeClass, badgeText, serverFlag, acked,
                 lastAck, now, events>>

\* error callback (transport failure), with jQuery's error text.
UpdateStatusError(i, error) ==
  /\ i \in 1..Len(requests)
  /\ Kind(requests[i].row) = "order"
  /\ error \in TransportErrors
  /\ LET r == requests[i]
         originalText == StatusTextOf(r.row)
     IN /\ toastContainer' = showToast(toastContainer, now, "Error",
                                       <<"Failed to update status: ", error>>, "danger")
        /\ selectVal' = SetAll(selectVal, CallbackThis(r.row), DataOriginalStatus(r.row))
        /\ statusText' = SetAll(statusText, originalText, r.originalStatus)
  /\ requests' = RemoveAt(requests, i)
  /\ UNCHANGED <<otherVars, rows, checked, badgeClass, badgeText, serverFlag, acked, lastAck,
                 now, events>>

\* ------------------------------------------- user-active / review-approval
\* Badge class and text, and the wording of the success toast, per kind and boolean.
\* Mutant: the review handler keeps the user handler's class for the false state.
ToggleClassForUserOnly(kind, on) == IF on THEN "bg-success" ELSE "bg-danger"

ToggleClassFor(kind, on) ==
  IF on THEN "bg-success" ELSE IF kind = "user" THEN "bg-danger" ELSE "bg-warning"

ToggleTextFor(kind, on) ==
  IF kind = "user" THEN (IF on THEN "Active" ELSE "Inactive")
  ELSE (IF on THEN "Approved" ELSE "Pending")

RemovedToggleClasses(kind) ==
  IF kind = "user" THEN {"bg-success", "bg-danger"} ELSE {"bg-success", "bg-warning"}

ToggleSuccessMessage(kind, on) ==
  IF kind = "user"
    THEN (IF on THEN <<"User activated successfully">>
                ELSE <<"User deactivated successfully">>)
    ELSE (IF on THEN <<"Review approved successfully">>
                ELSE <<"Review unapproved successfully">>)

ToggleErrorPrefix(kind) ==
  IF kind = "user" THEN "Failed to update user status: " ELSE "Failed to update review: "

\* The user clicks a row's checkbox: the browser flips it, the change handler reads
\* the new boolean and issues the request (no body).
ToggleChange(row) ==
  /\ row \in ToggleRows
  /\ events < MaxEvents
  /\ LET isActive == ~checked[row]
     IN /\ checked' = [checked EXCEPT ![row] = isActive]
        /\ requests' = Append(requests,
              Request(row, "", isActive, "", checked[row], ""))
  /\ events' = events + 1
  /\ UNCHANGED <<otherVars, rows, selectVal, statusText, badgeClass, badgeText, serverFlag, acked,
                 lastAck, toastContainer, now>>

\* The server handles a toggle request: it flips the row's flag and answers
\* success=true, or refuses with success=false and a message.
ServerToggle(i, accept, message) ==
  /\ i \in 1..Len(requests)
  /\ Kind(requests[i].row) \in {"user", "review"}
  /\ requests[i].phase = "sent"
  /\ message \in ServerMessages
  /\ IF accept
       THEN /\ serverFlag' = [serverFlag EXCEPT ![requests[i].row] = ~@]
            /\ requests' = [requests EXCEPT ![i].phase = "ok"]
       ELSE /\ serverFlag' = serverFlag
            /\ requests' = [requests EXCEPT ![i].phase = "rejected", ![i].message = message]
  /\ UNCHANGED <<otherVars, rows, selectVal, statusText, checked, badgeClass, badgeText, acked,
                 lastAck, toastContainer, now, events>>

\* success callback, response.success true.
ToggleSuccess(i) ==
  /\ i \in 1..Len(requests)
  /\ Kind(requests[i].row) \in {"user", "review"}
  /\ requests[i].phase = "ok"
  /\ LET r == requests[i]
         kind == Kind(r.row)
         badge == ToggleBadgeOf(kind, Id(r.row))
     IN /\ toastContainer' = showToast(toastContainer, now, "Success",
                                       ToggleSuccessMessage(kind, r.isOn), "success")
        /\ badgeClass' =
             [b \in DOMAIN badgeClass |->
                IF b \in badge
                  THEN (badgeClass[b] \ RemovedToggleClasses(kind))
                         \cup {ToggleClassFor(kind, r.isOn)}
                  ELSE badgeClass[b]]
        /\ badgeText' = SetAll(badgeText, badge, ToggleTextFor(kind, r.isOn))
        /\ acked' = [acked EXCEPT ![r.row] = TRUE]
  /\ requests' = RemoveAt(requests, i)
  /\ UNCHANGED <<otherVars, rows, selectVal, statusText, checked, serverFlag, lastAck, now, events>>

\* success callback, response.success false.
ToggleRejected(i) ==
  /\ i \in 1..Len(requests)
  /\ Kind(requests[i].row) \in {"user", "review"}
  /\ requests[i].phase = "rejected"
  /\ LET r == requests[i]
     IN /\ toastContainer' = showToast(toastContainer, now, "Error", <<r.message>>, "danger")
        /\ checked' = SetAll(checked, CallbackThis(r.row), ~r.isOn)
  /\ requests' = RemoveAt(requests, i)
  /\ UNCHANGED <<otherVars, rows, selectVal, statusText, badgeClass, badgeText, serverFlag, acked,
                 lastAck, now, events>>

\* error callback: the request or its answer was lost, before or after the server
\* handled it.
ToggleError(i, error) ==
  /\ i \in 1..Len(requests)
  /\ Kind(requests[i].row) \in {"user", "review"}
  /\ error \in TransportErrors
  /\ LET r == requests[i]
     IN /\ toastContainer' = showToast(toastContainer, now, "Error",
                                       <<ToggleErrorPrefix(Kind(r.row)), error>>, "danger")
        /\ checked' = SetAll(checked, CallbackThis(r.row), ~r.isOn)
  /\ requests' = RemoveAt(requests, i)
  /\ UNCHANGED <<otherVars, rows, selectVal, statusText, badgeClass, badgeText, serverFlag, acked,
                 lastAck, now, events>>

\* ---------------------------------------------------------------- export
\* data-type of the .export-data elements.
ExportTypes == {"orders", "users"}

\* new Date().toISOString().slice(0, 10): the UTC calendar day of a clock value.
ISODate(t) == t \div TicksPerDay

\* Mutant: the date is read in the click handler and captured by the callback.
ExportDateAtClick(clickTime, responseTime) == ISODate(clickTime)

\* The date in the file name.  The success callback evaluates new Date() when it
\* runs, so it reads the clock of the response, not of the click.
ExportDate(clickTime, responseTime) == ISODate(responseTime)

\* `export_${exportType}_${date}.csv`
ExportFileName(exportType, date) ==
  [prefix |-> "export_", type |-> exportType, date |-> date, ext |-> ".csv"]

\* Is the 'Preparing export...' toast of clock t in container c.
Announced(c, t) ==
  \E j \in 1..Len(c) : c[j].id = t /\ c[j].message = <<"Preparing export...">>

\* Mutant: the request is issued first and the toast shown after it.
ExportClickRequestFirst(exportType) ==
  /\ exportType \in ExportTypes
  /\ events < MaxEvents
  /\ exportReqs' = Append(exportReqs,
        [type |-> exportType, clickTime |-> now,
         announced |-> Announced(toastContainer, now)])
  /\ toastContainer' = showToast(toastContainer, now, "Info",
                                 <<"Preparing export...">>, "info")
  /\ events' = events + 1
  /\ UNCHANGED <<rowVars, statsVars, navVars, downloads, bulkVars, themeVars, now>>

\* Click on an .export-data element: the toast is shown, then $.ajax is called;
\* `announced` records whether the toast was in the container at that call.
ExportClick(exportType) ==
  /\ exportType \in ExportTypes
  /\ events < MaxEvents
  /\ LET shown == showToast(toastContainer, now, "Info",
                            <<"Preparing export...">>, "info")
     IN /\ toastContainer' = shown
        /\ exportReqs' = Append(exportReqs,
              [type |-> exportType, clickTime |-> now,
               announced |-> Announced(shown, now)])
  /\ events' = events + 1
  /\ UNCHANGED <<rowVars, statsVars, navVars, downloads, bulkVars, themeVars, now>>

\* success callback of an export request: build the link, click it, notify.
ExportSuccess(i) ==
  /\ i \in 1..Len(exportReqs)
  /\ LET r == exportReqs[i]
     IN /\ downloads' = Append(downloads,
              [name |-> ExportFileName(r.type, ExportDate(r.clickTime, now)),
               type |-> r.type, clickTime |-> r.clickTime, responseTime |-> now])
        /\ toastContainer' = showToast(toastContainer, now, "Success",
                                       <<"Export completed successfully">>, "success")
  /\ exportReqs' = RemoveAt(exportReqs, i)
  /\ UNCHANGED <<rowVars, statsVars, navVars, bulkVars, themeVars, now, events>>

\* error callback of an export request.
ExportError(i, error) ==
  /\ i \in 1..Len(exportReqs)
  /\ error \in TransportErrors
  /\ toastContainer' = showToast(toastContainer, now, "Error",
                                 <<"Export failed: ", error>>, "danger")
  /\ exportReqs' = RemoveAt(exportReqs, i)
  /\ UNCHANGED <<rowVars, statsVars, navVars, downloads, bulkVars, themeVars, now, events>>

\* ----------------------------------------------------------- bulk action
\* The values of the .bulk-select checkboxes, in document order.
BulkValues == <<"11", "12">>
\* data-action of the .bulk-action buttons.
BulkActions == {"delete", "approve"}

\* $('.bulk-select:checked').each(... selectedIds.push($(this).val()))
SelectedIds(ch) ==
  LET F[n \in 0..Len(BulkValues)] ==
        IF n = 0 THEN <<>>
        ELSE IF ch[n] THEN Append(F[n - 1], BulkValues[n]) ELSE F[n - 1]
  IN F[Len(BulkValues)]

\* Mutant: the emptiness test never succeeds.
NoneSelectedNever(selectedIds) == Len(selectedIds) < 0

\* selectedIds.length === 0
NoneSelected(selectedIds) == Len(selectedIds) = 0

\* The user clicks one .bulk-select checkbox (no handler is bound to it).
BulkSelectClick(n) ==
  /\ n \in 1..Len(BulkValues)
  /\ events < MaxEvents
  /\ bulkChecked' = [bulkChecked EXCEPT ![n] = ~@]
  /\ events' = events + 1
  /\ UNCHANGED <<rowVars, statsVars, navVars, exportVars, themeVars, selectAll, confirmLog, consoleLog,
                 toastContainer, now>>

\* The user clicks the .select-all checkbox: its boolean goes to every .bulk-select.
SelectAllChange ==
  /\ events < MaxEvents
  /\ LET isChecked == ~selectAll
     IN /\ selectAll' = isChecked
        /\ bulkChecked' = [n \in DOMAIN bulkChecked |-> isChecked]
  /\ events' = events + 1
  /\ UNCHANGED <<rowVars, statsVars, navVars, exportVars, themeVars, confirmLog, consoleLog,
                 toastContainer, now>>

\* Click on a .bulk-action button; `answer` is what the user answers to confirm().
BulkActionClick(action, answer) ==
  /\ action \in BulkActions
  /\ answer \in BOOLEAN
  /\ events < MaxEvents
  /\ LET selectedIds == SelectedIds(bulkChecked)
     IN IF NoneSelected(selectedIds)
          THEN /\ toastContainer' = showToast(toastContainer, now, "Warning",
                      <<"Please select items to perform this action">>, "warning")
               /\ UNCHANGED <<confirmLog, consoleLog>>
          ELSE /\ confirmLog' = Append(confirmLog,
                      [action |-> action, count |-> Len(selectedIds), answer |-> answer])
               /\ consoleLog' = IF answer
                                  THEN Append(consoleLog,
                                              [action |-> action, ids |-> selectedIds])
                                  ELSE consoleLog
               /\ UNCHANGED toastContainer
  /\ events' = events + 1
  /\ UNCHANGED <<rowVars, statsVars, navVars, exportVars, themeVars, bulkChecked, selectAll, now>>

\* ----------------------------------------------------------------- theme
\* Values of the data-bs-theme attribute and of the stored item; "none" is an
\* absent attribute (attr() gives undefined) or an absent item (getItem gives null).
Themes == {"light", "dark"}
ThemeValues == Themes \cup {"none"}

\* Mutant: the switcher always chooses dark.
NewThemeAlwaysDark(currentTheme) == "dark"

\* currentTheme === 'dark' ? 'light' : 'dark'
NewTheme(currentTheme) == IF currentTheme = "dark" THEN "light" ELSE "dark"

\* Mutant: the saved theme is read but never applied.
ThemeAfterReadyUnapplied(current, savedTheme) == current

\* The attribute after the document-ready callback: the saved theme if there is one.
ThemeAfterReady(current, savedTheme) == IF savedTheme # "none" THEN savedTheme ELSE current

LastTwo(h) == IF Len(h) > 2 THEN SubSeq(h, Len(h) - 1, Len(h)) ELSE h

\* Click on .theme-switcher.
ThemeSwitch ==
  /\ pageLoaded
  /\ events < MaxEvents
  /\ LET currentTheme == htmlTheme
         newTheme == NewTheme(currentTheme)
     IN /\ htmlTheme' = newTheme
        /\ storedTheme' = newTheme
        /\ toastContainer' = showToast(toastContainer, now, "Theme Changed",
                                       <<"Switched to ", newTheme, " mode">>, "info")
        /\ themeHist' = LastTwo(Append(themeHist, [op |-> "switch", before |-> currentTheme]))
  /\ events' = events + 1
  /\ UNCHANGED <<rowVars, statsVars, navVars, exportVars, bulkVars, markupTheme, pageLoaded, now>>

\* The user reloads the page: the document is rendered again from the server's
\* markup; localStorage stays.
Reload ==
  /\ pageLoaded
  /\ events < MaxEvents
  /\ htmlTheme' = markupTheme
  /\ toastContainer' = <<>>
  /\ pageLoaded' = FALSE
  /\ themeHist' = LastTwo(Append(themeHist, [op |-> "reload", before |-> htmlTheme]))
  /\ events' = events + 1
  /\ UNCHANGED <<rowVars, statsVars, navVars, exportVars, bulkVars, markupTheme, storedTheme, now>>

\* $(document).ready: the saved theme, when there is one, goes to <html>.
Ready ==
  /\ ~pageLoaded
  /\ LET savedTheme == storedTheme
     IN htmlTheme' = ThemeAfterReady(htmlTheme, savedTheme)
  /\ pageLoaded' = TRUE
  /\ UNCHANGED <<rowVars, statsVars, navVars, exportVars, bulkVars, markupTheme, storedTheme, themeHist,
                 toastContainer, now, events>>

\* --------------------------------------------------------- confirm-delete
\* The .confirm-delete links: href and data-name ("" when the attribute is absent).
DeleteLinks ==
  { [href |-> "/dashboard/orders/1/delete", name |-> "Order 1"],
    [href |-> "/dashboard/users/2/delete", name |-> ""] }

\* $(this).data('name') || 'this item'
ItemName(link) == IF link.name = "" THEN "this item" ELSE link.name

\* Mutant: the handler does not call e.preventDefault().
DefaultKept == FALSE

\* e.preventDefault(): the browser does not follow the link after the handler.
DefaultPrevented == TRUE

\* The document is left for `url`: the page there is rendered anew by the server and
\* its ready callback has yet to run.
Navigate(url) ==
  /\ location' = url
  /\ htmlTheme' = markupTheme
  /\ toastContainer' = <<>>
  /\ pageLoaded' = FALSE
  /\ themeHist' = LastTwo(Append(themeHist, [op |-> "navigate", before |-> htmlTheme]))

\* Click on a .confirm-delete link; `answer` is what the user answers to confirm().
ConfirmDeleteClick(link, answer) ==
  /\ link \in DeleteLinks
  /\ answer \in BOOLEAN
  /\ pageLoaded
  /\ events < MaxEvents
  /\ LET url == link.href
         itemName == ItemName(link)
     IN /\ deletePrompts' = Append(deletePrompts, [itemName |-> itemName, answer |-> answer])
        /\ IF answer
             THEN Navigate(url)
             ELSE IF ~DefaultPrevented
                    THEN Navigate(link.href)
                    ELSE UNCHANGED <<location, htmlTheme, toastContainer, pageLoaded,
                                     themeHist>>
  /\ events' = events + 1
  /\ UNCHANGED <<rowVars, statsVars, exportVars, bulkVars, markupTheme, storedTheme, now>>

\* --------------------------------------------------------- stats refresh
\* response.stats of /api/dashboard/stats; avg_order_value is given in thousandths.
StatsValues ==
  { [order_count |-> 12, revenue |-> 45000, avg_order_value |-> 3750500, new_customers |-> 3],
    [order_count |-> 240, revenue |-> 1234567, avg_order_value |-> 5144029, new_customers |-> 17],
    [order_count |-> 1, revenue |-> 999, avg_order_value |-> 999000, new_customers |-> 1],
    [order_count |-> 35, revenue |-> 100000, avg_order_value |-> 2857143, new_customers |-> 0],
    [order_count |-> 0, revenue |-> 0, avg_order_value |-> 0, new_customers |-> 0] }

\* The slots as the server rendered them.
RenderedSlots ==
  [orders |-> 7, revenue |-> [symbol |-> "Rs", groups |-> <<21, 0>>],
   avgOrder |-> [symbol |-> "Rs", int |-> 3000, frac |-> 0], customers |-> 1]

\* Number.prototype.toLocaleString('en-IN') of a whole number: the digit groups, the
\* last of three digits and the ones before it of two.
RECURSIVE PairGroups(_)
PairGroups(n) == IF n < 100 THEN <<n>> ELSE Append(PairGroups(n \div 100), n % 100)

ToLocaleStringEnIN(n) ==
  IF n < 1000 THEN <<n>> ELSE Append(PairGroups(n \div 1000), n % 1000)

\* Number.prototype.toFixed(2) of a value in thousandths: whole part and two decimals.
ToFixed2(v) ==
  LET hundredths == (v + 5) \div 10
  IN [symbol |-> "Rs", int |-> hundredths \div 100, frac |-> hundredths % 100]

\* Mutant: the last slot is not written.
updateStatsDisplaySkipsCustomers(slots, stats) ==
  [orders |-> stats.order_count,
   revenue |-> [symbol |-> "Rs", groups |-> ToLocaleStringEnIN(stats.revenue)],
   avgOrder |-> ToFixed2(stats.avg_order_value),
   customers |-> slots.customers]

\* updateStatsDisplay(stats): the four .text() writes ("Rs" stands for the rupee sign).
updateStatsDisplay(slots, stats) ==
  [orders |-> stats.order_count,
   revenue |-> [symbol |-> "Rs", groups |-> ToLocaleStringEnIN(stats.revenue)],
   avgOrder |-> ToFixed2(stats.avg_order_value),
   customers |-> stats.new_customers]

\* The 60-second interval fires: updateDashboardStats issues its request, whether or
\* not an earlier one is still in flight.
updateDashboardStats ==
  /\ events < MaxEvents
  /\ statsReqs' = Append(statsReqs, [issued |-> Len(statsLog) + Len(statsReqs) + 1])
  /\ events' = events + 1
  /\ UNCHANGED <<rowVars, exportVars, bulkVars, themeVars, navVars, statsSlots,
                 lastStats, statsLog, toastContainer, now>>

\* success callback, response.success true.
StatsSuccess(i, stats) ==
  /\ i \in 1..Len(statsReqs)
  /\ stats \in StatsValues
  /\ statsSlots' = updateStatsDisplay(statsSlots, stats)
  /\ lastStats' = <<stats>>
  /\ statsLog' = Append(statsLog, [issued |-> statsReqs[i].issued, outcome |-> "ok"])
  /\ statsReqs' = RemoveAt(statsReqs, i)
  /\ UNCHANGED <<rowVars, exportVars, bulkVars, themeVars, navVars, toastContainer,
                 now, events>>

\* success callback, response.success false: the if has no else.
StatsRejected(i) ==
  /\ i \in 1..Len(statsReqs)
  /\ statsLog' = Append(statsLog, [issued |-> statsReqs[i].issued, outcome |-> "rejected"])
  /\ statsReqs' = RemoveAt(statsReqs, i)
  /\ UNCHANGED <<rowVars, exportVars, bulkVars, themeVars, navVars, statsSlots,
                 lastStats, toastContainer, now, events>>

\* Transport failure: the call registers no error callback.
StatsError(i) ==
  /\ i \in 1..Len(statsReqs)
  /\ statsLog' = Append(statsLog, [issued |-> statsReqs[i].issued, outcome |-> "error"])
  /\ statsReqs' = RemoveAt(statsReqs, i)
  /\ UNCHANGED <<rowVars, exportVars, bulkVars, themeVars, navVars, statsSlots,
                 lastStats, toastContainer, now, events>>

\* ----------------------------------------------------------------- Init
\* The page as the server rendered it and the ready callback left it, at clock t,
\* rendering one of the row sets `pages`, with markup theme m and stored theme st:
\* every order pending, every checkbox and badge showing the server's flag, no
\* selection, nothing in flight, no toast.
InitAt(t, pages, m, st) ==
  /\ rows \in pages
  /\ selectVal = [r \in OrderRows |-> "pending"]
  /\ statusText = [r \in OrderRows |-> ToUpperCase("pending")]
  /\ serverFlag \in [ToggleRows -> BOOLEAN]
  /\ checked = serverFlag
  /\ badgeClass = [r \in rows |->
                     IF Kind(r) = "order" THEN {BadgeClassFor("pending")}
                     ELSE {ToggleClassFor(Kind(r), serverFlag[r])}]
  /\ badgeText = [r \in rows |->
                     IF Kind(r) = "order" THEN ToUpperCase("pending")
                     ELSE ToggleTextFor(Kind(r), serverFlag[r])]
  /\ acked = [r \in rows |-> FALSE]
  /\ lastAck = [r \in OrderRows |-> "pending"]
  /\ requests = <<>>
  /\ toastContainer = <<>>
  /\ now = t
  /\ events = 0
  /\ exportReqs = <<>>
  /\ downloads = <<>>
  /\ bulkChecked = [n \in 1..Len(BulkValues) |-> FALSE]
  /\ selectAll = FALSE
  /\ confirmLog = <<>>
  /\ consoleLog = <<>>
  /\ markupTheme = m
  /\ storedTheme = st
  /\ htmlTheme = ThemeAfterReady(markupTheme, storedTheme)
  /\ pageLoaded = TRUE
  /\ themeHist = <<>>
  /\ statsSlots = RenderedSlots
  /\ statsReqs = <<>>
  /\ lastStats = <<>>
  /\ statsLog = <<>>
  /\ location = PageUrl
  /\ deletePrompts = <<>>

\* A page of rows, loaded at tick 0, no theme set.
InitRows == InitAt(0, PageRows, "none", "none")

\* A page without rows, loaded at any tick of day 0, no theme set.
InitTools == \E t \in 0..(TicksPerDay - 1) : InitAt(t, {{}}, "none", "none")

\* A page without rows, loaded at tick 0, with any markup theme and any stored theme.
InitTheme == \E m \in ThemeValues, st \in ThemeValues : InitAt(0, {{}}, m, st)

\* The dashboard page, loaded at any tick of day 0, no theme set.
InitStats == \E t \in 0..(TicksPerDay - 1) : InitAt(t, {{}}, "none", "none")

ToastStep == \E i \in 1..Len(toastContainer) : ToastHidden(i)

NextRows ==
  \/ \E row \in rows, s \in SelectOptions : UpdateStatusChange(row, s)
  \/ \E i \in 1..Len(requests), s \in ServerStatuses : UpdateStatusSuccess(i, s)
  \/ \E i \in 1..Len(requests), m \in ServerMessages : UpdateStatusRejected(i, m)
  \/ \E i \in 1..Len(requests), e \in TransportErrors : UpdateStatusError(i, e)
  \/ \E row \in rows : ToggleChange(row)
  \/ \E i \in 1..Len(requests), a \in BOOLEAN, m \in ServerMessages : ServerToggle(i, a, m)
  \/ \E i \in 1..Len(requests) : ToggleSuccess(i)
  \/ \E i \in 1..Len(requests) : ToggleRejected(i)
  \/ \E i \in 1..Len(requests), e \in TransportErrors : ToggleError(i, e)
  \/ ToastStep
  \/ Tick

NextTools ==
  \/ \E t \in ExportTypes : ExportClick(t)
  \/ \E i \in 1..Len(exportReqs) : ExportSuccess(i)
  \/ \E i \in 1..Len(exportReqs), e \in TransportErrors : ExportError(i, e)
  \/ \E n \in 1..Len(BulkValues) : BulkSelectClick(n)
  \/ SelectAllChange
  \/ \E a \in BulkActions, ans \in BOOLEAN : BulkActionClick(a, ans)
  \/ ToastStep
  \/ Tick

NextTheme ==
  \/ ThemeSwitch
  \/ Reload
  \/ Ready
  \/ \E link \in DeleteLinks, ans \in BOOLEAN : ConfirmDeleteClick(link, ans)
  \/ ToastStep
  \/ Tick

NextStats ==
  \/ updateDashboardStats
  \/ \E i \in 1..Len(statsReqs), st \in StatsValues : StatsSuccess(i, st)
  \/ \E i \in 1..Len(statsReqs) : StatsRejected(i)
  \/ \E i \in 1..Len(statsReqs) : StatsError(i)
  \/ Tick

\* The row handlers of a page (orders, users, reviews).
SpecRows == InitRows /\ [][NextRows]_vars
\* The export, bulk-action and select-all handlers.
SpecTools == InitTools /\ [][NextTools]_vars
\* The theme switcher, the saved-theme load and the confirm-delete links.
SpecTheme == InitTheme /\ [][NextTheme]_vars
\* The periodic stats refresh.
SpecStats == InitStats /\ [][NextStats]_vars

\* ======================================================================
\* Properties
\* ======================================================================

RejectedStep(i) == \E m \in ServerMessages : UpdateStatusRejected(i, m)
ErrorStep(i) == \E e \in TransportErrors : UpdateStatusError(i, e)
ToggleErrorStep(i) == \E e \in TransportErrors : ToggleError(i, e)

\* C1: once the failure callback of an update-status request has run (success=false
\* or transport error), the row's select holds the value it had before the user's
\* change and the row's label shows the text it had before the change.
C1_FailedStatusUpdateRestores ==
  [][\A i \in 1..Len(requests) :
       (RejectedStep(i) \/ ErrorStep(i))
         => /\ selectVal'[requests[i].row] = requests[i].prevVal
            /\ statusText'[requests[i].row] = requests[i].originalStatus]_vars

\* C2: once the failure callback of a toggle request has run (success=false or
\* transport error), the row's checkbox holds the boolean it had before the toggle.
C2_FailedToggleRestores ==
  [][\A i \in 1..Len(requests) :
       (ToggleRejected(i) \/ ToggleErrorStep(i))
         => checked'[requests[i].row] = requests[i].prevOn]_vars

InFlight(row) == \E i \in 1..Len(requests) : requests[i].row = row

BadgeShowsOn(row) ==
  /\ "bg-success" \in badgeClass[row]
  /\ badgeText[row] = ToggleTextFor(Kind(row), TRUE)

\* C3: whenever no request of a user or review row is in flight and a toggle of the
\* row has succeeded, the row's badge shows the active/approved state exactly when
\* the server's flag of the row is true.
C3_BadgeMatchesServer ==
  \A row \in ToggleRows :
    (~InFlight(row) /\ acked[row]) => (BadgeShowsOn(row) <=> serverFlag[row])

\* C4: after any successful status updates of an order, its badge carries exactly one
\* colour class, the one the mapping gives to the last acknowledged new_status.
C4_OneColourClass ==
  \A row \in OrderRows :
    acked[row] => badgeClass[row] = {BadgeClassFor(lastAck[row])}

\* The step appends exactly one toast, an error toast with this message, and keeps
\* every toast that was there.
ErrorToastAdded(message) ==
  /\ Len(toastContainer') = Len(toastContainer) + 1
  /\ \A j \in 1..Len(toastContainer) :
       [toastContainer'[j] EXCEPT !.shown = FALSE] = [toastContainer[j] EXCEPT !.shown = FALSE]
  /\ LET el == toastContainer'[Len(toastContainer')]
     IN /\ el.title = "Error"
        /\ el.type = "danger"
        /\ el.message = message

Downloads == {downloads[i] : i \in 1..Len(downloads)}

\* C7 as stated: every downloaded file is named for the clicked type and the calendar
\* date of the click.
C7_NameUsesClickDate ==
  \A d \in Downloads : d.name = ExportFileName(d.type, ISODate(d.clickTime))

\* C7 amended: every downloaded file is named export_<type>_<date>.csv for the clicked
\* element's type and the calendar date (UTC) at which the success callback runs.
C7_NameUsesResponseDate ==
  \A d \in Downloads : d.name = ExportFileName(d.type, ISODate(d.responseTime))

\* A download whose date advanced between click and response, named for the later day.
C7_Witness ==
  \E d \in Downloads :
    /\ ISODate(d.clickTime) # ISODate(d.responseTime)
    /\ d.name.date = ISODate(d.responseTime)

IsDark(theme) == theme = "dark"

TwoSwitches ==
  /\ Len(themeHist) = 2
  /\ themeHist[1].op = "switch"
  /\ themeHist[2].op = "switch"

\* C8: after two theme switches in a row the root's theme is what it was before the
\* first: the attribute itself when it was light or dark, and the light default when
\* the attribute was absent.
C8_DoubleSwitchRestores ==
  TwoSwitches
    => /\ IsDark(htmlTheme) = IsDark(themeHist[1].before)
       /\ themeHist[1].before \in Themes => htmlTheme = themeHist[1].before

\* Two switches in a row from a set attribute, back at it.
C8_Witness ==
  /\ TwoSwitches
  /\ themeHist[1].before \in Themes
  /\ htmlTheme = themeHist[1].before
  /\ htmlTheme # themeHist[2].before

\* C9: once a theme is stored, whenever the page has finished loading the root's theme
\* is the stored theme, after any switches and reloads.
C9_LoadedThemeIsStored ==
  (pageLoaded /\ storedTheme # "none") => htmlTheme = storedTheme

\* A reload after a switch has finished loading and shows the switched theme, which
\* is not the markup's.
C9_Witness ==
  /\ Len(themeHist) = 2
  /\ themeHist[1].op = "switch"
  /\ themeHist[2].op = "reload"
  /\ pageLoaded
  /\ htmlTheme = storedTheme
  /\ htmlTheme # markupTheme
  /\ htmlTheme # themeHist[1].before

\* What a row shows: its control, its label and its badge.
RowView(q) ==
  [select |-> IF Kind(q) = "order" THEN selectVal[q] ELSE "",
   label |-> IF Kind(q) = "order" THEN statusText[q] ELSE "",
   checked |-> IF Kind(q) = "order" THEN FALSE ELSE checked[q],
   class |-> badgeClass[q],
   text |-> badgeText[q]]

OthersUnchanged(row) == \A q \in rows \ {row} : RowView(q)' = RowView(q)

\* C10: a change handler or a callback of the row with identifier i leaves the control,
\* the label and the badge of every other row as they were, on the pending, success
\* and failure paths, under any interleaving.
C10_OtherRowsUntouched ==
  [][/\ \A row \in rows :
          ((\E s \in SelectOptions : UpdateStatusChange(row, s)) \/ ToggleChange(row))
            => OthersUnchanged(row)
     /\ \A i \in 1..Len(requests) :
          ( \/ \E s \in ServerStatuses : UpdateStatusSuccess(i, s)
            \/ RejectedStep(i)
            \/ ErrorStep(i)
            \/ ToggleSuccess(i)
            \/ ToggleRejected(i)
            \/ ToggleErrorStep(i) )
            => OthersUnchanged(requests[i].row)]_vars

\* Two order rows with interleaved handlers: one acknowledged as delivered, the other
\* still pending its own request, each showing its own state.
C10_Witness ==
  \E r, q \in OrderRows :
    /\ r # q
    /\ acked[r] /\ badgeText[r] = "DELIVERED" /\ statusText[r] = "DELIVERED"
    /\ ~acked[q] /\ InFlight(q)
    /\ badgeText[q] = "PENDING" /\ statusText[q] = UpdatingText

\* C11: after any stats ticks and answers, overlapping ones included, the four slots
\* hold the values of the last success=true answer processed, formatted, or what the
\* server rendered when there has been none; a failed or success=false answer writes
\* no slot, and the stats refresh never shows a notification.
C11_SlotsShowLastGoodStats ==
  /\ statsSlots = IF lastStats = <<>> THEN RenderedSlots
                  ELSE [orders |-> lastStats[1].order_count,
                        revenue |-> [symbol |-> "Rs",
                                     groups |-> ToLocaleStringEnIN(lastStats[1].revenue)],
                        avgOrder |-> ToFixed2(lastStats[1].avg_order_value),
                        customers |-> lastStats[1].new_customers]
  /\ toastContainer = <<>>

\* Two overlapping ticks, answered out of issue order: the later request succeeded
\* first, then the earlier one failed, and the slots still show the good answer.
C11_Witness ==
  /\ statsReqs = <<>>
  /\ Len(statsLog) = 2
  /\ statsLog[1].outcome = "ok"
  /\ statsLog[1].issued = 2
  /\ statsLog[2].outcome \in {"rejected", "error"}
  /\ statsLog[2].issued = 1
  /\ statsSlots # RenderedSlots
  /\ statsSlots.revenue.groups = <<12, 34, 567>>

\* C12: a toggle request that succeeds paints the row's badge with the boolean it
\* captured at its click, so of two requests of one row in flight at once that both
\* succeed the badge ends with the boolean of the one processed last, whichever was
\* issued first.
C12_LastProcessedWins ==
  [][\A i \in 1..Len(requests) :
       ToggleSuccess(i)
         => LET row == requests[i].row
                on == requests[i].isOn
            IN /\ badgeClass'[row] =
                    {IF on THEN "bg-success"
                     ELSE IF Kind(row) = "user" THEN "bg-danger" ELSE "bg-warning"}
               /\ badgeText'[row] =
                    (IF Kind(row) = "user"
                       THEN (IF on THEN "Active" ELSE "Inactive")
                       ELSE (IF on THEN "Approved" ELSE "Pending"))]_vars

\* A review row approved then unapproved by two quick clicks, both requests in flight at
\* once: the second (unapprove) was answered first and the first (approve) last, so the
\* badge ends Approved over an unchecked checkbox.
C12_Witness ==
  \E row \in ToggleRows :
    /\ Kind(row) = "review"
    /\ requests = <<>>
    /\ acked[row]
    /\ \A q \in rows \ {row} : ~acked[q]
    /\ Len(toastContainer) = 2
    /\ toastContainer[1].message = <<"Review unapproved successfully">>
    /\ toastContainer[2].message = <<"Review approved successfully">>
    /\ ~checked[row]
    /\ BadgeShowsOn(row)

\* C13: whenever no update-status request of an order row is in flight, the row's label
\* does not show the pending indicator.
C13_NoPendingLabelWhenIdle ==
  \A row \in OrderRows : ~InFlight(row) => statusText[row] # UpdatingText

\* The step appends exactly one toast, of this type and message, after those there.
ToastAdded(type, message) ==
  /\ Len(toastContainer') = Len(toastContainer) + 1
  /\ \A j \in 1..Len(toastContainer) :
       [toastContainer'[j] EXCEPT !.shown = FALSE] = [toastContainer[j] EXCEPT !.shown = FALSE]
  /\ toastContainer'[Len(toastContainer')].type = type
  /\ toastContainer'[Len(toastContainer')].message = message

C15_ToastIdsDistinct ==
  /\ \A i, j \in 1..Len(toastContainer) :
       i # j => toastContainer[i].id # toastContainer[j].id
  /\ \A i \in 1..Len(toastContainer) : toastContainer[i].shown

\* C16: a click on a confirm-delete link leaves the document for the link's URL exactly
\* when the user accepts the prompt; a cancelled prompt changes neither the location
\* nor any other state of the page, and nothing else changes the location.
C16_NavigateOnlyOnConfirm ==
  [][/\ \A link \in DeleteLinks :
          /\ ConfirmDeleteClick(link, TRUE) => (location' = link.href /\ ~pageLoaded')
          /\ ConfirmDeleteClick(link, FALSE)
               => /\ Len(deletePrompts') = Len(deletePrompts) + 1
                  /\ UNCHANGED <<location, rowVars, exportVars, bulkVars, themeVars,
                                 statsVars, toastContainer, now>>
     /\ location' # location
          => \E link \in DeleteLinks : ConfirmDeleteClick(link, TRUE)]_vars

\* A prompt was cancelled and the page stayed; the next was accepted and the page at the
\* link's URL has loaded.
C16_Witness ==
  /\ Len(deletePrompts) = 2
  /\ ~deletePrompts[1].answer
  /\ deletePrompts[2].answer
  /\ deletePrompts[2].itemName = "this item"
  /\ location = "/dashboard/users/2/delete"
  /\ pageLoaded

====
